---- MODULE Spec2Model ----
(***************************************************************************)
(* A model of qr_grid_generator.py: generate_html (grid computation, logo  *)
(* download, per-item QR composition, the page loop, the write of          *)
(* qr_grid.html) and update_json_from_csv.                                 *)
(*                                                                         *)
(* Python indices are 0-based; sequences here are 1-based, so the element  *)
(* the code calls names[current_index] is names[current_index + 1].        *)
(***************************************************************************)
EXTENDS Integers, Sequences, FiniteSets, TLC

VARIABLES
    json_file,      \* contents of the JSON configuration file (urls.json)
    csv_file,       \* contents of the CSV file: [fieldnames, rows]
    config,         \* local `config` (json.load result), Unbound before the load
    image_urls,     \* local `image_urls` of update_json_from_csv
    pc,             \* position in the running function
    err,            \* the exception that ended the run, "" if none
    cols,           \* local `cols`
    max_rows_per_page,
    requested,      \* URLs passed to requests.get, in order
    logo_image,     \* local `logo_image`
    composed,       \* urls passed to create_qr_with_logo, in order
    qr_codes,       \* local list `qr_codes`
    names,          \* local list `names`
    current_index,
    pages,          \* the page blocks appended to `html`, in order
    out_file        \* qr_grid.html: [written, pages]

vars == <<json_file, csv_file, config, image_urls, pc, err, cols,
          max_rows_per_page, requested, logo_image, composed, qr_codes,
          names, current_index, pages, out_file>>

(***************************************************************************)
(* Bounds of the model.                                                    *)
(***************************************************************************)
MaxItems == 5
MaxRows == 2

\* The page loop can run without advancing; the model records at most this
\* many page blocks (one more than any advancing run can need).
PageCap == MaxItems + 1

(***************************************************************************)
(* Values.                                                                 *)
(***************************************************************************)
None == [kind |-> "None"]
Unbound == [unbound |-> TRUE]
Raise(e) == [raise |-> e]
IsRaise(r) == "raise" \in DOMAIN r

\* math.floor(a / b) for integers a, b with b # 0
floor_div(a, b) == IF b > 0 THEN a \div b ELSE (0 - a) \div (0 - b)

\* available_width = int((210 - 2 * 6) * 3.78), available_height likewise
mm_to_px_x100 == 378
print_margin_mm == 6
available_width == ((210 - 2 * print_margin_mm) * mm_to_px_x100) \div 100
available_height == ((297 - 2 * print_margin_mm) * mm_to_px_x100) \div 100

\* cell_height = qr_height + 20
cell_height(qr_height) == qr_height + 20

(***************************************************************************)
(* URLs.  A logo URL is what urlparse sees of it: hostname, the path split *)
(* at "/", and the query as key/value pairs.  A destination URL is an atom *)
(* with a payload length.                                                  *)
(***************************************************************************)
DriveIdLink ==
    [hostname |-> "drive.google.com", path |-> <<"", "open">>,
     query |-> << <<"id", "F1">> >>]
DrivePathLink ==
    [hostname |-> "drive.google.com",
     path |-> <<"", "file", "d", "F2", "view">>, query |-> <<>>]
DirectLink ==
    [hostname |-> "i.imgur.com", path |-> <<"", "logo.png">>, query |-> <<>>]

LogoUrls == {DriveIdLink, DrivePathLink, DirectLink}

\* 'id=' in url: some query key ends in "id"
KeysEndingInId == {"id", "fid"}
ContainsIdEq(url) ==
    \E k \in 1..Len(url.query) : url.query[k][1] \in KeysEndingInId

\* parse_qs(parsed.query)['id'][0]
QueryId(url) ==
    LET hits == {k \in 1..Len(url.query) : url.query[k][1] = "id"}
    IN  IF hits = {} THEN Raise("KeyError")
        ELSE [value |-> url.query[CHOOSE k \in hits : \A m \in hits : k <= m][2]]

get_file_id_from_google_drive_url(url) ==
    IF url.hostname = "drive.google.com"
    THEN IF ContainsIdEq(url)
         THEN QueryId(url)
         ELSE IF Len(url.path) >= 4 THEN [value |-> url.path[4]]
              ELSE Raise("IndexError")
    ELSE None

\* the server's answers to requests.get(url) followed by Image.open
Responses == {"ok", "unreachable", "http404", "undecodable"}

\* download_image(url) under the response resp: the image, or None
download_image(url, resp) ==
    IF resp = "ok" THEN [kind |-> "Image", src |-> url] ELSE None

\* mutant of LogoMissing: the check of line 113 never fires
LogoMissingUnchecked(img) == FALSE

\* `if not logo_image`
LogoMissing(img) == img = None

(***************************************************************************)
(* Batch items and create_qr_with_logo.                                    *)
(***************************************************************************)
Items == {[name |-> "a", url |-> "u1"], [name |-> "b", url |-> "u2"],
          [name |-> "c", url |-> "uBig"]}

PayloadLen(url) ==
    CASE url = "u1" -> 20
      [] url = "u2" -> 31
      [] url = "uBig" -> 3000

\* bytes a version-40 symbol holds at ERROR_CORRECT_H
CapacityH == 1273

\* qr.add_data(url); qr.make(fit=True) ... resize ... b64encode.  Raises when
\* the payload fits no version, when the logo is None (logo_image.resize) and
\* when a size is not positive (resize).
create_qr_with_logo(url, logo, size, logo_size) ==
    IF PayloadLen(url) > CapacityH THEN Raise("DataOverflowError")
    ELSE IF logo = None THEN Raise("AttributeError")
    ELSE IF logo_size[1] < 1 \/ logo_size[2] < 1 THEN Raise("ValueError")
    ELSE IF size[1] < 1 \/ size[2] < 1 THEN Raise("ValueError")
    ELSE [png |-> [data |-> url, logo |-> logo.src, logo_size |-> logo_size,
                   size |-> size]]

(***************************************************************************)
(* generate_html                                                           *)
(***************************************************************************)
XSizes == {-100, 0, 374, 748, 800}
YSizes == {-120, -20, 500, 519, 1100}

RECURSIVE SeqsUpTo(_, _)
SeqsUpTo(S, n) ==
    IF n = 0 THEN {<<>>}
    ELSE LET shorter == SeqsUpTo(S, n - 1)
         IN  shorter \cup {Append(s, x) : s \in {t \in shorter : Len(t) = n - 1}, x \in S}

Configs ==
    [xsize : XSizes, ysize : YSizes, logox : {60}, logoy : {60},
     logo : LogoUrls, image_urls : SeqsUpTo(Items, MaxItems)]

NoCsv == [fieldnames |-> <<>>, rows |-> <<>>]

Init ==
    /\ json_file \in Configs
    /\ csv_file = NoCsv
    /\ config = Unbound
    /\ image_urls = <<>>
    /\ pc = "start"
    /\ err = ""
    /\ cols = 0
    /\ max_rows_per_page = 0
    /\ requested = <<>>
    /\ logo_image = None
    /\ composed = <<>>
    /\ qr_codes = <<>>
    /\ names = <<>>
    /\ current_index = 0
    /\ pages = <<>>
    /\ out_file = [written |-> FALSE, pages |-> <<>>]

\* lines 89-109: load the configuration and compute the grid
ComputeGrid ==
    /\ pc = "start"
    /\ config' = json_file
    /\ IF json_file.xsize = 0 \/ cell_height(json_file.ysize) = 0
       THEN /\ pc' = "error"
            /\ err' = "ZeroDivisionError"
            /\ cols' = IF json_file.xsize = 0 THEN cols
                       ELSE floor_div(available_width, json_file.xsize)
            /\ UNCHANGED max_rows_per_page
       ELSE /\ cols' = floor_div(available_width, json_file.xsize)
            /\ max_rows_per_page' =
                   floor_div(available_height, cell_height(json_file.ysize))
            /\ pc' = "download"
            /\ UNCHANGED err
    /\ UNCHANGED <<json_file, csv_file, image_urls, requested, logo_image,
                   composed, qr_codes, names, current_index, pages, out_file>>

\* the position after the for loop of lines 119-122 has handled k items
AfterItems(k) == IF k < Len(config.image_urls) THEN "compose" ELSE "pages"

\* lines 111-114: download the logo, raise if there is none
DownloadLogo ==
    /\ pc = "download"
    /\ \E resp \in Responses :
         LET img == download_image(config.logo, resp)
         IN  /\ requested' = Append(requested, config.logo)
             /\ logo_image' = img
             /\ IF LogoMissing(img)
                THEN /\ pc' = "error"
                     /\ err' = "Failed to download logo image"
                ELSE /\ pc' = AfterItems(0)
                     /\ UNCHANGED err
    /\ UNCHANGED <<json_file, csv_file, config, image_urls, cols,
                   max_rows_per_page, composed, qr_codes, names,
                   current_index, pages, out_file>>

\* mutant of ComposeOutcome: an item whose composition raises is skipped
ComposeOutcomeSkipping(item, r) ==
    IF IsRaise(r)
    THEN [pc |-> AfterItems(Len(composed) + 1), err |-> err,
          qr_codes |-> qr_codes, names |-> names]
    ELSE [pc |-> AfterItems(Len(composed) + 1), err |-> err,
          qr_codes |-> Append(qr_codes, r),
          names |-> Append(names, item.name)]

\* one iteration of the for loop of lines 119-122 on `item`, given the call's
\* result r
ComposeOutcome(item, r) ==
    IF IsRaise(r)
    THEN [pc |-> "error", err |-> r.raise, qr_codes |-> qr_codes,
          names |-> names]
    ELSE [pc |-> AfterItems(Len(composed) + 1), err |-> err,
          qr_codes |-> Append(qr_codes, r),
          names |-> Append(names, item.name)]

ComposeItem ==
    /\ pc = "compose"
    /\ LET item == config.image_urls[Len(composed) + 1]
           r == create_qr_with_logo(item.url, logo_image,
                                    <<config.xsize, config.ysize>>,
                                    <<config.logox, config.logoy>>)
           o == ComposeOutcome(item, r)
       IN  /\ composed' = Append(composed, item.url)
           /\ pc' = o.pc
           /\ err' = o.err
           /\ qr_codes' = o.qr_codes
           /\ names' = o.names
    /\ UNCHANGED <<json_file, csv_file, config, image_urls, cols,
                   max_rows_per_page, requested, logo_image, current_index,
                   pages, out_file>>

\* mutant of WhileCond: the loop stops one item early
WhileCondOffByOne(index, codes) == index + 1 < Len(codes)

\* mutant of HasItem: the last item is never placed
HasItemOffByOne(index, codes) == index + 1 < Len(codes)

\* line 205 and line 214: current_index < len(qr_codes)
WhileCond(index, codes) == index < Len(codes)
HasItem(index, codes) == index < Len(codes)

\* mutant of QrCell: the cell is indexed within the page, not within the batch
QrCellPageLocal(index) ==
    LET local == index % (cols * max_rows_per_page)
    IN  [kind |-> "qr", title |-> names[local + 1],
         img |-> qr_codes[local + 1], width |-> config.xsize,
         height |-> config.ysize, item |-> local]

\* lines 215-222: the populated <td>; `item` records the batch index whose
\* name and image were interpolated
QrCell(index) ==
    [kind |-> "qr", title |-> names[index + 1], img |-> qr_codes[index + 1],
     width |-> config.xsize, height |-> config.ysize, item |-> index]

\* line 225: the placeholder <td>
EmptyCell ==
    [kind |-> "empty", width |-> config.xsize,
     height |-> cell_height(config.ysize)]

\* mutant of FillRow: the row ends with the last item, no placeholder is added
RECURSIVE FillRowNoPad(_, _)
FillRowNoPad(j, st) ==
    IF j >= cols \/ ~(st.index < Len(qr_codes)) THEN st
    ELSE FillRowNoPad(j + 1,
                      [cells |-> Append(st.cells,
                                        [kind |-> "qr",
                                         title |-> names[st.index + 1],
                                         img |-> qr_codes[st.index + 1],
                                         width |-> config.xsize,
                                         height |-> config.ysize,
                                         item |-> st.index]),
                       index |-> st.index + 1])

\* lines 213-225: `for j in range(cols)`, from column j on, st = [cells, index]
RECURSIVE FillRow(_, _)
FillRow(j, st) ==
    IF j >= cols THEN st
    ELSE IF HasItem(st.index, qr_codes)
         THEN FillRow(j + 1, [cells |-> Append(st.cells, QrCell(st.index)),
                              index |-> st.index + 1])
         ELSE FillRow(j + 1, [cells |-> Append(st.cells, EmptyCell),
                              index |-> st.index])

\* lines 210-227: `for i in range(max_rows_per_page)`, from row i on,
\* st = [rows, index]
RECURSIVE FillRows(_, _)
FillRows(i, st) ==
    IF i >= max_rows_per_page THEN st
    ELSE LET row == FillRow(0, [cells |-> <<>>, index |-> st.index])
         IN  FillRows(i + 1, [rows |-> Append(st.rows, row.cells),
                              index |-> row.index])

\* lines 205-229: one iteration of the while loop
EmitPage ==
    /\ pc = "pages"
    /\ WhileCond(current_index, qr_codes)
    /\ Len(pages) < PageCap
    /\ LET page == FillRows(0, [rows |-> <<>>, index |-> current_index])
       IN  /\ pages' = Append(pages, page.rows)
           /\ current_index' = page.index
    /\ UNCHANGED <<json_file, csv_file, config, image_urls, pc, err, cols,
                   max_rows_per_page, requested, logo_image, composed,
                   qr_codes, names, out_file>>

\* lines 231-238: the loop has ended, write qr_grid.html
WriteFile ==
    /\ pc = "pages"
    /\ ~WhileCond(current_index, qr_codes)
    /\ out_file' = [written |-> TRUE, pages |-> pages]
    /\ pc' = "done"
    /\ UNCHANGED <<json_file, csv_file, config, image_urls, err, cols,
                   max_rows_per_page, requested, logo_image, composed,
                   qr_codes, names, current_index, pages>>

Next ==
    \/ ComputeGrid
    \/ DownloadLogo
    \/ ComposeItem
    \/ EmitPage
    \/ WriteFile

Spec == Init /\ [][Next]_vars

(***************************************************************************)
(* update_json_from_csv.  Text the code edits character by character       *)
(* (field names, cell values) is a sequence of characters.                 *)
(***************************************************************************)
BOM == "BOM"
Whitespace == {" ", "\t"}

\* str.lower() on one character
LowerChar(c) ==
    CASE c = "N" -> "n" [] c = "A" -> "a" [] c = "M" -> "m" [] c = "E" -> "e"
      [] c = "U" -> "u" [] c = "R" -> "r" [] c = "L" -> "l" [] OTHER -> c

lower(s) == [k \in 1..Len(s) |-> LowerChar(s[k])]

\* s.replace(BOM, '')
RECURSIVE remove_bom(_)
remove_bom(s) ==
    IF s = <<>> THEN <<>>
    ELSE IF s[1] = BOM THEN remove_bom(Tail(s))
    ELSE <<s[1]>> \o remove_bom(Tail(s))

\* line 246: field.lower().replace(BOM, '')
normalize_field(field) == remove_bom(lower(field))

\* str.strip()
RECURSIVE lstrip(_)
lstrip(s) ==
    IF s # <<>> /\ s[1] \in Whitespace THEN lstrip(Tail(s)) ELSE s
RECURSIVE rstrip(_)
rstrip(s) ==
    IF s # <<>> /\ s[Len(s)] \in Whitespace
    THEN rstrip(SubSeq(s, 1, Len(s) - 1)) ELSE s
strip(s) == rstrip(lstrip(s))

\* DictReader's row[key]: dict(zip(fieldnames, row)), keys past the end of
\* the row set to None; a later duplicate key wins
RowGet(fieldnames, row, key) ==
    LET hits == {k \in 1..Len(fieldnames) : fieldnames[k] = key}
    IN  IF hits = {} THEN Raise("KeyError")
        ELSE LET k == CHOOSE h \in hits : \A m \in hits : m <= h
             IN  IF k <= Len(row) THEN [value |-> row[k]] ELSE None

\* row[key].strip()
StrippedField(fieldnames, row, key) ==
    LET v == RowGet(fieldnames, row, key)
    IN  IF IsRaise(v) THEN v
        ELSE IF v = None THEN Raise("AttributeError")
        ELSE [value |-> strip(v.value)]

NameKey == <<"n", "a", "m", "e">>
UrlKey == <<"u", "r", "l">>

\* line 248: {"name": row["name"].strip(), "url": row["url"].strip()}
RowEntry(fieldnames, row) ==
    LET n == StrippedField(fieldnames, row, NameKey)
        u == StrippedField(fieldnames, row, UrlKey)
    IN  IF IsRaise(n) THEN n
        ELSE IF IsRaise(u) THEN u
        ELSE [value |-> [name |-> n.value, url |-> u.value]]

\* lines 248-249: the list comprehension over the rows from row k on
RECURSIVE RowEntries(_, _, _, _)
RowEntries(fieldnames, rows, k, acc) ==
    IF k > Len(rows) THEN [value |-> acc]
    ELSE LET e == RowEntry(fieldnames, rows[k])
         IN  IF IsRaise(e) THEN e
             ELSE RowEntries(fieldnames, rows, k + 1, Append(acc, e.value))

\* mutant of UpdatedConfig: the CSV entries are appended to the prior list
UpdatedConfigAppending(cfg, urls) ==
    [cfg EXCEPT !.image_urls = cfg.image_urls \o urls]

\* line 256: config['image_urls'] = image_urls
UpdatedConfig(cfg, urls) == [cfg EXCEPT !.image_urls = urls]

CsvFieldNames ==
    {<<NameKey, UrlKey>>,
     <<<<"N", "a", "m", "e">>, <<"U", "R", "L">>>>,
     <<<<BOM, "n", "a", "m", "e">>, UrlKey>>,
     <<UrlKey, NameKey>>,
     <<NameKey>>,
     <<NameKey, <<"n", "o", "t", "e">>, UrlKey>>}

CsvValues == {<<"a">>, <<" ", "b", "\t">>}

CsvRowSet ==
    {<<v>> : v \in CsvValues}
      \cup {<<v, w>> : v \in CsvValues, w \in CsvValues}
      \cup {<<<<"a">>, <<"x">>, <<" ", "b", "\t">>>>}

PriorItem == [name |-> <<"o">>, url |-> <<"p">>]

CsvConfigs ==
    [xsize : {374, 748}, ysize : {500}, logox : {60}, logoy : {60},
     logo : {DirectLink}, image_urls : {<<>>, <<PriorItem>>}]

InitCsv ==
    /\ json_file \in CsvConfigs
    /\ csv_file \in [fieldnames : CsvFieldNames,
                     rows : SeqsUpTo(CsvRowSet, MaxRows)]
    /\ config = Unbound
    /\ image_urls = <<>>
    /\ pc = "csv_open"
    /\ err = ""
    /\ cols = 0
    /\ max_rows_per_page = 0
    /\ requested = <<>>
    /\ logo_image = None
    /\ composed = <<>>
    /\ qr_codes = <<>>
    /\ names = <<>>
    /\ current_index = 0
    /\ pages = <<>>
    /\ out_file = [written |-> FALSE, pages |-> <<>>]

\* lines 243-249: read the CSV file into image_urls
ReadCsv ==
    /\ pc = "csv_open"
    /\ LET fieldnames ==
               [k \in 1..Len(csv_file.fieldnames) |->
                    normalize_field(csv_file.fieldnames[k])]
           r == RowEntries(fieldnames, csv_file.rows, 1, <<>>)
       IN  IF IsRaise(r)
           THEN /\ pc' = "error"
                /\ err' = r.raise
                /\ UNCHANGED image_urls
           ELSE /\ image_urls' = r.value
                /\ pc' = "json_load"
                /\ UNCHANGED err
    /\ UNCHANGED <<json_file, csv_file, config, cols, max_rows_per_page,
                   requested, logo_image, composed, qr_codes, names,
                   current_index, pages, out_file>>

\* lines 252-256: load the JSON file and replace image_urls in the dict
LoadJson ==
    /\ pc = "json_load"
    /\ config' = UpdatedConfig(json_file, image_urls)
    /\ pc' = "json_dump"
    /\ UNCHANGED <<json_file, csv_file, image_urls, err, cols,
                   max_rows_per_page, requested, logo_image, composed,
                   qr_codes, names, current_index, pages, out_file>>

\* lines 259-260: write the dict back to the JSON file
DumpJson ==
    /\ pc = "json_dump"
    /\ json_file' = config
    /\ pc' = "csv_done"
    /\ UNCHANGED <<csv_file, config, image_urls, err, cols,
                   max_rows_per_page, requested, logo_image, composed,
                   qr_codes, names, current_index, pages, out_file>>

NextCsv ==
    \/ ReadCsv
    \/ LoadJson
    \/ DumpJson

SpecCsv == InitCsv /\ [][NextCsv]_vars

(***************************************************************************)
(* Properties of generate_html.                                            *)
(***************************************************************************)
Loaded == config # Unbound
N == Len(config.image_urls)
cellsPerPage == cols * max_rows_per_page
GridOk == cols >= 1 /\ max_rows_per_page >= 1
InPageLoop == pc \in {"pages", "done"}

\* ceil(n / d) for d >= 1
CeilDiv(n, d) == (n + d - 1) \div d

\* the <td> positions of page blocks pgs, as <<page, row, column>> from 1
Slots(pgs) ==
    UNION {UNION {{<<p, r, c>> : c \in 1..Len(pgs[p][r])} :
                  r \in 1..Len(pgs[p])} : p \in 1..Len(pgs)}
CellOf(pgs, s) == pgs[s[1]][s[2]][s[3]]
Populated(pgs) == {s \in Slots(pgs) : CellOf(pgs, s).kind = "qr"}
Placeholders(pgs) == {s \in Slots(pgs) : CellOf(pgs, s).kind = "empty"}
PlacesOf(pgs, i) == {s \in Populated(pgs) : CellOf(pgs, s).item = i}

\* s comes before t in page order, then row-major order
Precedes(s, t) ==
    \/ s[1] < t[1]
    \/ s[1] = t[1] /\ s[2] < t[2]
    \/ s[1] = t[1] /\ s[2] = t[2] /\ s[3] < t[3]

\* where the batch item of index i (from 0) belongs
ExpectedSlot(i) ==
    <<(i \div cellsPerPage) + 1, ((i % cellsPerPage) \div cols) + 1,
      ((i % cellsPerPage) % cols) + 1>>

\* the image composed from the url of batch item i (from 0)
ImageOfItem(i) ==
    create_qr_with_logo(config.image_urls[i + 1].url, logo_image,
                        <<config.xsize, config.ysize>>,
                        <<config.logox, config.logoy>>)

\* C1: with cols >= 1 and rowsPerPage >= 1, every batch item the page loop
\* has passed is placed exactly once, at page i div cellsPerPage, row
\* (i mod cellsPerPage) div cols, column (i mod cellsPerPage) mod cols, with
\* its name as the label and the image composed from its url; no later item
\* is placed yet; and the written file holds every one of the N items.
C1_OrderPreserving ==
    (InPageLoop /\ GridOk) =>
        /\ \A i \in 0..(N - 1) :
             IF i < current_index
             THEN /\ PlacesOf(pages, i) = {ExpectedSlot(i)}
                  /\ CellOf(pages, ExpectedSlot(i)).title =
                         config.image_urls[i + 1].name
                  /\ CellOf(pages, ExpectedSlot(i)).img = ImageOfItem(i)
             ELSE PlacesOf(pages, i) = {}
        /\ \A s \in Populated(pages) : CellOf(pages, s).item \in 0..(N - 1)
        /\ out_file.written => (current_index = N /\ out_file.pages = pages)

C1_Witness ==
    /\ pc = "done" /\ GridOk /\ cols >= 2 /\ max_rows_per_page >= 2
    /\ N = cellsPerPage + 1
    /\ PlacesOf(out_file.pages, N - 1) = {<<2, 1, 1>>}
    /\ PlacesOf(out_file.pages, 3) = {<<1, 2, 2>>}

\* C2: with cellsPerPage >= 1, the written file holds ceil(N / cellsPerPage)
\* page blocks, and zero page blocks when the batch is empty.
C2_PageCount ==
    (pc = "done" /\ cellsPerPage >= 1) =>
        /\ Len(out_file.pages) = CeilDiv(N, cellsPerPage)
        /\ (N = 0 => out_file.pages = <<>>)

C2_Witness ==
    /\ pc = "done" /\ cellsPerPage >= 2
    /\ N > cellsPerPage /\ (N % cellsPerPage) # 0
    /\ Len(out_file.pages) = (N \div cellsPerPage) + 1

\* C3: every page block emitted, the last partially filled one included, has
\* exactly max_rows_per_page rows and every row has exactly cols cells.
UniformGrid(pgs) ==
    \A p \in 1..Len(pgs) :
        /\ Len(pgs[p]) = max_rows_per_page
        /\ \A r \in 1..Len(pgs[p]) : Len(pgs[p][r]) = cols

C3_UniformGeometry == UniformGrid(pages) /\ UniformGrid(out_file.pages)

C3_Witness ==
    /\ pc = "done" /\ GridOk /\ Len(out_file.pages) >= 2
    /\ Placeholders(out_file.pages) # {}
    /\ Populated(out_file.pages) # {}
    /\ Len(out_file.pages[Len(out_file.pages)]) = max_rows_per_page

\* C4: a placeholder is emitted only once every item is placed, on the last
\* page and after every populated cell; the written file holds
\* pageCount * cellsPerPage - N placeholders; cellsPerPage items give one
\* full page; cellsPerPage + 1 items give two pages, the second holding one
\* populated cell at row 0, column 0.
C4_Placeholders ==
    InPageLoop =>
        /\ \A s \in Placeholders(pages) :
             /\ current_index = N
             /\ s[1] = Len(pages)
             /\ \A t \in Populated(pages) : Precedes(t, s)
        /\ pc = "done" =>
             Cardinality(Placeholders(out_file.pages)) =
                 Len(out_file.pages) * cellsPerPage - N
        /\ (pc = "done" /\ GridOk /\ N = cellsPerPage) =>
             (Len(out_file.pages) = 1 /\ Placeholders(out_file.pages) = {})
        /\ (pc = "done" /\ GridOk /\ N = cellsPerPage + 1) =>
             /\ Len(out_file.pages) = 2
             /\ {s \in Populated(out_file.pages) : s[1] = 2} = {<<2, 1, 1>>}
             /\ Cardinality({s \in Placeholders(out_file.pages) : s[1] = 2})
                    = cellsPerPage - 1

C4_Witness ==
    /\ pc = "done" /\ GridOk /\ cellsPerPage >= 2
    /\ N = cellsPerPage + 1
    /\ Cardinality(Placeholders(out_file.pages)) = cellsPerPage - 1

\* C5: when cols < 1 or rowsPerPage < 1, generate_html ends in an error
\* without going on to the download, the composition or the page loop, and
\* qr_grid.html is not written.
C5_LayoutError ==
    (Loaded /\ (cols < 1 \/ max_rows_per_page < 1)) =>
        (pc = "error" /\ ~out_file.written)

\* C6: when the logo download fails, generate_html ends in an error before
\* create_qr_with_logo is called for any item, and qr_grid.html is not
\* written.
LogoFetchFailed == requested # <<>> /\ logo_image = None

C6_LogoFailureAborts ==
    LogoFetchFailed =>
        (pc = "error" /\ composed = <<>> /\ ~out_file.written)

C6_Witness ==
    /\ LogoFetchFailed /\ pc = "error" /\ N >= 1
    /\ err = "Failed to download logo image"

\* C7: a batch holding an item whose composition fails never gets its file
\* written, the failure ends the run in an error at that item, and a written
\* file means every item was composed and is in the file.
ItemFails(i) == IsRaise(ImageOfItem(i))

C7_AllOrNothing ==
    /\ (Loaded /\ logo_image # None /\ \E i \in 0..(N - 1) : ItemFails(i)) =>
           ~out_file.written
    /\ \A k \in 1..Len(composed) :
           (pc # "error" \/ k < Len(composed)) =>
               (k <= Len(qr_codes) /\ ~ItemFails(k - 1))
    /\ out_file.written =>
           /\ Len(composed) = N /\ Len(qr_codes) = N
           /\ \A i \in 0..(N - 1) : ~ItemFails(i)
           /\ GridOk => \A i \in 0..(N - 1) : PlacesOf(out_file.pages, i) # {}

C7_Witness ==
    /\ pc = "error" /\ err = "DataOverflowError"
    /\ Len(qr_codes) >= 1 /\ Len(composed) = Len(qr_codes) + 1
    /\ Len(composed) < N
    /\ ~out_file.written

\* C8: every iteration of the page loop advances current_index, so the loop
\* ends.
C8_PageLoopAdvances ==
    [][(pc = "pages" /\ pc' = "pages") => current_index' > current_index]_vars

\* C9: a drive.google.com logo link is not requested as given: the request
\* goes to another URL that carries the file id taken from the link.
CarriesId(url, id) ==
    \/ \E k \in 1..Len(url.query) : url.query[k][2] = id
    \/ \E k \in 1..Len(url.path) : url.path[k] = id

C9_DriveLinkResolved ==
    (Loaded /\ config.logo.hostname = "drive.google.com") =>
        \A k \in 1..Len(requested) :
            /\ requested[k] # config.logo
            /\ CarriesId(requested[k],
                         get_file_id_from_google_drive_url(config.logo).value)

(***************************************************************************)
(* Properties of update_json_from_csv.                                     *)
(***************************************************************************)
OtherKeys == {"xsize", "ysize", "logox", "logoy", "logo"}

\* the column DictReader reads for `key`: the last one whose name, lowered
\* and without BOM, is key
ColumnOf(key) ==
    LET hits == {k \in 1..Len(csv_file.fieldnames) :
                     normalize_field(csv_file.fieldnames[k]) = key}
    IN  CHOOSE h \in hits : \A m \in hits : m <= h

EntryOfRow(k) ==
    [name |-> strip(csv_file.rows[k][ColumnOf(NameKey)]),
     url |-> strip(csv_file.rows[k][ColumnOf(UrlKey)])]

\* C10: the write of update_json_from_csv leaves in the file exactly one
\* {name, url} entry per CSV row, in row order, none of the prior list, and
\* every other key as it was.
C10_ReplacesImageUrls ==
    [][(pc = "json_dump" /\ pc' = "csv_done") =>
          /\ Len(json_file'.image_urls) = Len(csv_file.rows)
          /\ \A k \in 1..Len(csv_file.rows) :
                 json_file'.image_urls[k] = EntryOfRow(k)
          /\ DOMAIN json_file' = DOMAIN json_file
          /\ \A key \in OtherKeys : json_file'[key] = json_file[key]]_vars

C10_Witness ==
    /\ pc = "csv_done"
    /\ Len(csv_file.rows) = 2
    /\ csv_file.rows[1] # csv_file.rows[2]
    /\ Len(json_file.image_urls) = 2
    /\ PriorItem \notin {json_file.image_urls[k] : k \in 1..2}

====
